---- MODULE Spec2Model ----
(***************************************************************************)
(* A model of istio::mixer_client::CheckCacher (src/check_cacher.cc): the  *)
(* check-response cache that sits in front of the remote Check call.       *)
(*                                                                         *)
(* Every public method is modelled as the sequence of steps its code       *)
(* takes, one action per statement group, with the position of each        *)
(* calling thread kept in pc.  What a method does before it takes the      *)
(* mutex touches nothing shared and is part of the step that takes it.     *)
(*                                                                         *)
(* The backing store (CheckCache, a SimpleLRUCache), the cycle timer and   *)
(* the signature generator are not part of check_cacher.cc; they are       *)
(* modelled from their documented interface.  The variables lastWrite,     *)
(* lastOK, flushed and written are history variables: they record what     *)
(* the calls have done and are read by no action.                          *)
(***************************************************************************)
EXTENDS Integers, FiniteSets, Sequences, TLC

\* Largest value of the cycle clock explored.
MaxTime == 2

\* SimpleCycleTimer::Frequency(): cycles per second of the cycle clock.
Frequency == 500

\* Calling threads.
Threads == {"t1", "t2"}

\* Attribute sets handed to Check / CacheResponse.
AttributeSets == {"a1", "a2"}

\* CheckResponse values.
Responses == {"R1", "R2"}

\* CheckOptions values the constructor is given.
NumEntriesChoices == {-1, 0, 1, 2}
FlushIntervalMsChoices == {0, 5}
ExpirationMsChoices == {2, 4}

VARIABLES
  options_,                 \* CheckOptions: num_entries, flush_interval_ms, expiration_ms
  flush_interval_in_cycle_, \* flush_interval_ms converted to cycles
  cache_,                   \* std::unique_ptr<CheckCache>: <<>> is null, <<store>> owns a store
  cache_mutex_,             \* "free" or the thread that holds the mutex
  now,                      \* SimpleCycleTimer::Now()
  pc,                       \* position of each thread
  frame,                    \* arguments, locals and return value of each thread's call
  live,                     \* number of CacheElem objects allocated and not deleted
  crashed,                  \* the process has faulted
  lifetime,                 \* "constructed", "destructing" (in ~CheckCacher) or "destroyed"
  lastWrite,                \* history: signature -> time and response of its last CacheResponse
                            \* write, while no later operation has removed the entry
  lastOK,                   \* history: signature -> time of its last successful Check or
                            \* CacheResponse, while no later operation has removed the entry
  flushed,                  \* history: signatures removed by FlushAll and not written since
  written                   \* history: signatures CacheResponse has ever stored an entry for

vars == <<options_, flush_interval_in_cycle_, cache_, cache_mutex_, now, pc,
          frame, live, crashed, lifetime, lastWrite, lastOK, flushed, written>>

config == <<options_, flush_interval_in_cycle_>>
history == <<lastWrite, lastOK, flushed, written>>

----------------------------------------------------------------------------
(* External collaborators *)

\* GenerateSignature(attributes): a deterministic, collision-free fingerprint.
GenerateSignature(attributes) == <<"sig", attributes>>

Signatures == {GenerateSignature(a) : a \in AttributeSets}

\* Milliseconds to cycles, as integer arithmetic does it (truncating).
MsToCycles(ms) == (ms * Frequency) \div 1000

\* CacheElem(response, time): a cached response and the time of its last use.
CacheElem(response, time) ==
  [check_response |-> response, last_check_time |-> time]

\* The empty table of a store.
EmptyTable == [s \in {} |-> 0]

\* CheckCache(max_units, deletion hook) followed by SetMaxIdleSeconds(seconds).
\* Each table slot holds the stored CacheElem, the units of capacity it was
\* inserted with and the store's own time of last use of the slot.
CheckCache(num_entries, expiration_ms) ==
  [max_units |-> num_entries,
   max_idle  |-> MsToCycles(expiration_ms),
   table     |-> EmptyTable]

\* Function f without the keys in S.
Without(f, S) == [k \in (DOMAIN f) \ S |-> f[k]]

\* ScopedLookup on a store: finding an entry counts as a use of it.
Touch(store, sig) ==
  IF sig \in DOMAIN store.table
    THEN [store EXCEPT !.table[sig].last_use = now]
    ELSE store

\* The keys RemoveExpiredEntries removes: idle for max_idle or longer.
Expired(store) ==
  {k \in DOMAIN store.table : now - store.table[k].last_use >= store.max_idle}

\* The units the entries with keys in keys take of the store's capacity.
RECURSIVE Units(_, _)
Units(store, keys) ==
  IF keys = {} THEN 0
  ELSE LET k == CHOOSE x \in keys : TRUE
       IN  store.table[k].units + Units(store, keys \ {k})

\* The victims Insert(sig, value, units) may evict after adding sig: none
\* while the store is within capacity; otherwise one entry, an older one
\* when there is one (which one is the store's own policy), else the new
\* entry itself.
Victims(store, sig, units) ==
  LET others == (DOMAIN store.table) \ {sig}
  IN  IF Units(store, others) + units <= store.max_units THEN {{}}
      ELSE IF others = {} THEN {{sig}}
      ELSE {{k} : k \in others}

----------------------------------------------------------------------------
(* Frames *)

\* The fields of a frame beyond the arguments: request_signature, now and
\* elem are the locals of the code; found, age, status, interval and deleted
\* record what the call saw and returns.
IdleFrame ==
  [op |-> "none", attributes |-> "none", response |-> "none",
   request_signature |-> <<>>, found |-> FALSE, now |-> 0, age |-> 0,
   elem |-> CacheElem("none", 0), status |-> "none", interval |-> 0,
   deleted |-> {}]

NewFrame(op, attributes, response) ==
  [IdleFrame EXCEPT !.op = op, !.attributes = attributes, !.response = response]

\* Acquire as it would be without mutual exclusion: the mutex is taken
\* whether or not it is free.
Acquire_NoExclusion(t) ==
  /\ cache_mutex_' = t

\* std::unique_lock<std::mutex> lock(cache_mutex_)
Acquire(t) ==
  /\ cache_mutex_ = "free"
  /\ cache_mutex_' = t

\* The unique_lock going out of scope at a return.
Release(t) ==
  /\ cache_mutex_' = IF cache_mutex_ = t THEN "free" ELSE cache_mutex_

\* ShouldFlush with the comparison off by one: an entry exactly
\* flush_interval old does not count as stale.
ShouldFlush_Strict(elem) ==
  LET age == now - elem.last_check_time
  IN  age > flush_interval_in_cycle_

\* CheckCacher::ShouldFlush
ShouldFlush(elem) ==
  LET age == now - elem.last_check_time
  IN  age >= flush_interval_in_cycle_

\* OnCacheEntryDelete as it would be without the delete: the entries handed
\* to the hook stay allocated.
OnCacheEntryDelete_NoDelete(allocated, removed) == allocated

\* CacheResponse's `new CacheElem` (line 92): one more object allocated.
NewCacheElem(allocated) == allocated + 1

\* CheckCacher::OnCacheEntryDelete (line 119), called by the store once for
\* each entry it removes: the number of allocated CacheElem objects after
\* `delete elem` has run for the entries in removed.
OnCacheEntryDelete(allocated, removed) == allocated - Cardinality(removed)

----------------------------------------------------------------------------
(* CheckCacher::CheckCacher *)

\* The constructor building the store only for a positive num_entries,
\* where line 35 tests num_entries >= 0.
Init_NoStoreForZero ==
  /\ options_ \in [num_entries : NumEntriesChoices,
                   flush_interval_ms : FlushIntervalMsChoices,
                   expiration_ms : ExpirationMsChoices]
  /\ flush_interval_in_cycle_ = MsToCycles(options_.flush_interval_ms)
  /\ cache_ = IF options_.num_entries > 0
                THEN <<CheckCache(options_.num_entries, options_.expiration_ms)>>
                ELSE <<>>
  /\ cache_mutex_ = "free"
  /\ now = 0
  /\ pc = [t \in Threads |-> "idle"]
  /\ frame = [t \in Threads |-> IdleFrame]
  /\ live = 0
  /\ crashed = FALSE
  /\ lifetime = "constructed"
  /\ lastWrite = EmptyTable
  /\ lastOK = EmptyTable
  /\ flushed = {}
  /\ written = {}

Init ==
  /\ options_ \in [num_entries : NumEntriesChoices,
                   flush_interval_ms : FlushIntervalMsChoices,
                   expiration_ms : ExpirationMsChoices]
  /\ flush_interval_in_cycle_ = MsToCycles(options_.flush_interval_ms)
  /\ cache_ = IF options_.num_entries >= 0
                THEN <<CheckCache(options_.num_entries, options_.expiration_ms)>>
                ELSE <<>>
  /\ cache_mutex_ = "free"
  /\ now = 0
  /\ pc = [t \in Threads |-> "idle"]
  /\ frame = [t \in Threads |-> IdleFrame]
  /\ live = 0
  /\ crashed = FALSE
  /\ lifetime = "constructed"
  /\ lastWrite = EmptyTable
  /\ lastOK = EmptyTable
  /\ flushed = {}
  /\ written = {}

\* The cycle clock advances.
Tick ==
  /\ ~crashed
  /\ lifetime # "destroyed"
  /\ now < MaxTime
  /\ now' = now + 1
  /\ UNCHANGED <<config, lifetime, cache_, cache_mutex_, pc, frame, live, crashed, history>>

----------------------------------------------------------------------------
(* CheckCacher::Check *)

\* Lines 53-56: a caller enters Check(attributes, &response), derives the
\* signature (a computation on its own arguments) and takes the mutex.
Check_Call(t, attributes) ==
  /\ ~crashed
  /\ pc[t] = "idle"
  /\ lifetime = "constructed"
  /\ Acquire(t)
  /\ frame' = [frame EXCEPT ![t] =
        [NewFrame("Check", attributes, "none")
           EXCEPT !.request_signature = GenerateSignature(attributes)]]
  /\ pc' = [pc EXCEPT ![t] = "check_lookup"]
  /\ UNCHANGED <<config, lifetime, cache_, now, live, crashed, history>>

\* Lines 57-62 with a store: the scoped lookup and the miss return.
Check_Lookup(t) ==
  /\ ~crashed
  /\ pc[t] = "check_lookup"
  /\ cache_ # <<>>
  /\ LET sig == frame[t].request_signature
         hit == sig \in DOMAIN cache_[1].table
     IN  /\ cache_' = <<Touch(cache_[1], sig)>>
         /\ frame' = [frame EXCEPT ![t].found = hit, ![t].now = now,
                        ![t].status = IF hit THEN "none" ELSE "NOT_FOUND"]
         /\ pc' = [pc EXCEPT ![t] =
                     IF hit THEN "check_should_flush" ELSE "check_return"]
  /\ UNCHANGED <<config, lifetime, cache_mutex_, now, live, crashed, history>>

\* Line 57 without a store: ScopedLookup is constructed on cache_.get(),
\* a null pointer, and looks the key up through it.  The behaviour is
\* undefined: the process faults, or the lookup reports nothing found.
Check_LookupNull(t) ==
  /\ ~crashed
  /\ pc[t] = "check_lookup"
  /\ cache_ = <<>>
  /\ \/ /\ crashed' = TRUE
        /\ frame' = [frame EXCEPT ![t].status = "FAULT"]
        /\ UNCHANGED pc
     \/ /\ crashed' = FALSE
        /\ frame' = [frame EXCEPT ![t].status = "NOT_FOUND"]
        /\ pc' = [pc EXCEPT ![t] = "check_return"]
  /\ UNCHANGED <<config, lifetime, cache_, cache_mutex_, now, live, history>>

\* Check_ShouldFlush removing the entry it finds stale, where lines 66-69
\* only return.
Check_ShouldFlush_Removes(t) ==
  /\ ~crashed
  /\ pc[t] = "check_should_flush"
  /\ LET sig   == frame[t].request_signature
         elem  == cache_[1].table[sig].value
         stale == ShouldFlush(elem)
     IN  /\ frame' = [frame EXCEPT ![t].elem = elem, ![t].now = now,
                        ![t].age = now - elem.last_check_time,
                        ![t].status = IF stale THEN "NOT_FOUND" ELSE "none"]
         /\ pc' = [pc EXCEPT ![t] =
                     IF stale THEN "check_return" ELSE "check_set_time"]
         /\ cache_' = IF stale
                        THEN <<[cache_[1] EXCEPT !.table = Without(@, {sig})]>>
                        ELSE cache_
         /\ live' = IF stale THEN OnCacheEntryDelete(live, {sig}) ELSE live
  /\ UNCHANGED <<config, lifetime, cache_mutex_, now, crashed, history>>

\* Lines 64-69: the staleness test and the stale return.
Check_ShouldFlush(t) ==
  /\ ~crashed
  /\ pc[t] = "check_should_flush"
  /\ LET elem  == cache_[1].table[frame[t].request_signature].value
         stale == ShouldFlush(elem)
     IN  /\ frame' = [frame EXCEPT ![t].elem = elem, ![t].now = now,
                        ![t].age = now - elem.last_check_time,
                        ![t].status = IF stale THEN "NOT_FOUND" ELSE "none"]
         /\ pc' = [pc EXCEPT ![t] =
                     IF stale THEN "check_return" ELSE "check_set_time"]
  /\ UNCHANGED <<config, lifetime, cache_, cache_mutex_, now, live, crashed, history>>

\* Check_SetTime without the assignment of line 72: the hit is served but
\* last_check_time is left as it was.
Check_SetTime_NoRefresh(t) ==
  /\ ~crashed
  /\ pc[t] = "check_set_time"
  /\ lastOK' = (frame[t].request_signature :> now) @@ lastOK
  /\ pc' = [pc EXCEPT ![t] = "check_copy"]
  /\ UNCHANGED <<config, lifetime, cache_, cache_mutex_, now, frame, live, crashed, lastWrite,
                 flushed, written>>

\* Line 72.
Check_SetTime(t) ==
  /\ ~crashed
  /\ pc[t] = "check_set_time"
  /\ LET sig == frame[t].request_signature
     IN  /\ cache_' = <<[cache_[1] EXCEPT !.table[sig].value.last_check_time = now]>>
         /\ lastOK' = (sig :> now) @@ lastOK
  /\ pc' = [pc EXCEPT ![t] = "check_copy"]
  /\ UNCHANGED <<config, lifetime, cache_mutex_, now, frame, live, crashed, lastWrite,
                 flushed, written>>

\* Line 73.
Check_Copy(t) ==
  /\ ~crashed
  /\ pc[t] = "check_copy"
  /\ LET elem == cache_[1].table[frame[t].request_signature].value
     IN  frame' = [frame EXCEPT ![t].response = elem.check_response,
                                ![t].status = "OK"]
  /\ pc' = [pc EXCEPT ![t] = "check_return"]
  /\ UNCHANGED <<config, lifetime, cache_, cache_mutex_, now, live, crashed, history>>

\* Lines 61, 68, 75: the return; the lock's scope ends.
Check_Return(t) ==
  /\ ~crashed
  /\ pc[t] = "check_return"
  /\ Release(t)
  /\ pc' = [pc EXCEPT ![t] = "idle"]
  /\ frame' = [frame EXCEPT ![t] = IdleFrame]
  /\ UNCHANGED <<config, lifetime, cache_, now, live, crashed, history>>

----------------------------------------------------------------------------
(* CheckCacher::CacheResponse *)

\* Lines 78-80: a caller enters CacheResponse(attributes, response) and takes
\* the mutex.
CacheResponse_Call(t, attributes, response) ==
  /\ ~crashed
  /\ pc[t] = "idle"
  /\ lifetime = "constructed"
  /\ Acquire(t)
  /\ frame' = [frame EXCEPT ![t] = NewFrame("CacheResponse", attributes, response)]
  /\ pc' = [pc EXCEPT ![t] = "cache_lookup"]
  /\ UNCHANGED <<config, lifetime, cache_, now, live, crashed, history>>

\* CacheResponse_Lookup without the test of lookup.Found() (line 88): a new
\* CacheElem is inserted whether or not the signature has an entry.
CacheResponse_Lookup_AlwaysInsert(t) ==
  /\ ~crashed
  /\ pc[t] = "cache_lookup"
  /\ IF cache_ = <<>>
       THEN /\ frame' = [frame EXCEPT ![t].status = "OK"]
            /\ pc' = [pc EXCEPT ![t] = "cache_return"]
            /\ UNCHANGED cache_
       ELSE LET sig == GenerateSignature(frame[t].attributes)
                hit == sig \in DOMAIN cache_[1].table
            IN  /\ cache_' = <<Touch(cache_[1], sig)>>
                /\ frame' = [frame EXCEPT ![t].request_signature = sig,
                               ![t].found = hit, ![t].now = now]
                /\ pc' = [pc EXCEPT ![t] = "cache_insert"]
  /\ UNCHANGED <<config, lifetime, cache_mutex_, now, live, crashed, history>>

\* CacheResponse_Lookup reporting a miss where line 97 returns OK for a
\* coordinator without a store.
CacheResponse_Lookup_DisabledMiss(t) ==
  /\ ~crashed
  /\ pc[t] = "cache_lookup"
  /\ IF cache_ = <<>>
       THEN /\ frame' = [frame EXCEPT ![t].status = "NOT_FOUND"]
            /\ pc' = [pc EXCEPT ![t] = "cache_return"]
            /\ UNCHANGED cache_
       ELSE LET sig == GenerateSignature(frame[t].attributes)
                hit == sig \in DOMAIN cache_[1].table
            IN  /\ cache_' = <<Touch(cache_[1], sig)>>
                /\ frame' = [frame EXCEPT ![t].request_signature = sig,
                               ![t].found = hit, ![t].now = now]
                /\ pc' = [pc EXCEPT ![t] =
                            IF hit THEN "cache_set_time" ELSE "cache_insert"]
  /\ UNCHANGED <<config, lifetime, cache_mutex_, now, live, crashed, history>>

\* Lines 82-88: nothing to do without a store; otherwise the signature, the
\* scoped lookup and the reading of the clock.
CacheResponse_Lookup(t) ==
  /\ ~crashed
  /\ pc[t] = "cache_lookup"
  /\ IF cache_ = <<>>
       THEN /\ frame' = [frame EXCEPT ![t].status = "OK"]
            /\ pc' = [pc EXCEPT ![t] = "cache_return"]
            /\ UNCHANGED cache_
       ELSE LET sig == GenerateSignature(frame[t].attributes)
                hit == sig \in DOMAIN cache_[1].table
            IN  /\ cache_' = <<Touch(cache_[1], sig)>>
                /\ frame' = [frame EXCEPT ![t].request_signature = sig,
                               ![t].found = hit, ![t].now = now]
                /\ pc' = [pc EXCEPT ![t] =
                            IF hit THEN "cache_set_time" ELSE "cache_insert"]
  /\ UNCHANGED <<config, lifetime, cache_mutex_, now, live, crashed, history>>

\* CacheResponse_SetTime without the assignment of line 89: the entry
\* found keeps its old last_check_time.
CacheResponse_SetTime_NoTime(t) ==
  /\ ~crashed
  /\ pc[t] = "cache_set_time"
  /\ lastOK' = (frame[t].request_signature :> frame[t].now) @@ lastOK
  /\ pc' = [pc EXCEPT ![t] = "cache_set_response"]
  /\ UNCHANGED <<config, lifetime, cache_, cache_mutex_, now, frame, live, crashed, lastWrite,
                 flushed, written>>

\* Line 89.
CacheResponse_SetTime(t) ==
  /\ ~crashed
  /\ pc[t] = "cache_set_time"
  /\ LET sig == frame[t].request_signature
     IN  /\ cache_' = <<[cache_[1] EXCEPT
                          !.table[sig].value.last_check_time = frame[t].now]>>
         /\ lastOK' = (sig :> frame[t].now) @@ lastOK
  /\ pc' = [pc EXCEPT ![t] = "cache_set_response"]
  /\ UNCHANGED <<config, lifetime, cache_mutex_, now, frame, live, crashed, lastWrite,
                 flushed, written>>

\* CacheResponse_SetResponse without the assignment of line 90: the entry
\* found keeps its old response.
CacheResponse_SetResponse_NoResponse(t) ==
  /\ ~crashed
  /\ pc[t] = "cache_set_response"
  /\ LET sig == frame[t].request_signature
     IN  /\ lastWrite' = (sig :> [time |-> frame[t].now,
                                  response |-> frame[t].response]) @@ lastWrite
         /\ flushed' = flushed \ {sig}
         /\ written' = written \cup {sig}
  /\ frame' = [frame EXCEPT ![t].status = "OK"]
  /\ pc' = [pc EXCEPT ![t] = "cache_return"]
  /\ UNCHANGED <<config, lifetime, cache_, cache_mutex_, now, live, crashed, lastOK>>

\* Line 90.
CacheResponse_SetResponse(t) ==
  /\ ~crashed
  /\ pc[t] = "cache_set_response"
  /\ LET sig == frame[t].request_signature
     IN  /\ cache_' = <<[cache_[1] EXCEPT
                          !.table[sig].value.check_response = frame[t].response]>>
         /\ lastWrite' = (sig :> [time |-> frame[t].now,
                                  response |-> frame[t].response]) @@ lastWrite
         /\ flushed' = flushed \ {sig}
         /\ written' = written \cup {sig}
  /\ frame' = [frame EXCEPT ![t].status = "OK"]
  /\ pc' = [pc EXCEPT ![t] = "cache_return"]
  /\ UNCHANGED <<config, lifetime, cache_mutex_, now, live, crashed, lastOK>>

\* CacheResponse_Insert creating the CacheElem with time 0 where line 92
\* passes the clock value read at line 86.
CacheResponse_Insert_ZeroTime(t) ==
  /\ ~crashed
  /\ pc[t] = "cache_insert"
  /\ LET sig        == frame[t].request_signature
         cache_elem == CacheElem(frame[t].response, 0)
         slot       == [value |-> cache_elem, units |-> 1, last_use |-> now]
         store      == cache_[1]
     IN  \E evicted \in Victims(store, sig, 1) :
           /\ cache_' = <<[store EXCEPT
                            !.table = Without((sig :> slot) @@ store.table, evicted)]>>
           /\ live' = OnCacheEntryDelete(NewCacheElem(live), evicted)
           /\ frame' = [frame EXCEPT ![t].status = "OK", ![t].deleted = evicted]
           /\ lastWrite' = (sig :> [time |-> frame[t].now,
                                    response |-> frame[t].response])
                             @@ Without(lastWrite, evicted)
           /\ lastOK' = (sig :> frame[t].now) @@ Without(lastOK, evicted)
           /\ flushed' = flushed \ {sig}
           /\ written' = written \cup {sig}
  /\ pc' = [pc EXCEPT ![t] = "cache_return"]
  /\ UNCHANGED <<config, lifetime, cache_mutex_, now, crashed>>

\* CacheResponse_Insert inserting with weight 0 where line 93 passes 1.
CacheResponse_Insert_NoWeight(t) ==
  /\ ~crashed
  /\ pc[t] = "cache_insert"
  /\ LET sig        == frame[t].request_signature
         cache_elem == CacheElem(frame[t].response, frame[t].now)
         slot       == [value |-> cache_elem, units |-> 0, last_use |-> now]
         store      == cache_[1]
     IN  \E evicted \in Victims(store, sig, 0) :
           /\ cache_' = <<[store EXCEPT
                            !.table = Without((sig :> slot) @@ store.table, evicted)]>>
           /\ live' = OnCacheEntryDelete(NewCacheElem(live), evicted)
           /\ frame' = [frame EXCEPT ![t].status = "OK", ![t].deleted = evicted]
           /\ lastWrite' = (sig :> [time |-> frame[t].now,
                                    response |-> frame[t].response])
                             @@ Without(lastWrite, evicted)
           /\ lastOK' = (sig :> frame[t].now) @@ Without(lastOK, evicted)
           /\ flushed' = flushed \ {sig}
           /\ written' = written \cup {sig}
  /\ pc' = [pc EXCEPT ![t] = "cache_return"]
  /\ UNCHANGED <<config, lifetime, cache_mutex_, now, crashed>>

\* Lines 92-93: a new CacheElem is allocated and inserted with weight 1; the
\* store evicts what no longer fits and hands it to OnCacheEntryDelete
\* (line 119), which deletes it.
CacheResponse_Insert(t) ==
  /\ ~crashed
  /\ pc[t] = "cache_insert"
  /\ LET sig        == frame[t].request_signature
         cache_elem == CacheElem(frame[t].response, frame[t].now)
         slot       == [value |-> cache_elem, units |-> 1, last_use |-> now]
         store      == cache_[1]
     IN  \E evicted \in Victims(store, sig, 1) :
           /\ cache_' = <<[store EXCEPT
                            !.table = Without((sig :> slot) @@ store.table, evicted)]>>
           /\ live' = OnCacheEntryDelete(NewCacheElem(live), evicted)
           /\ frame' = [frame EXCEPT ![t].status = "OK", ![t].deleted = evicted]
           /\ lastWrite' = (sig :> [time |-> frame[t].now,
                                    response |-> frame[t].response])
                             @@ Without(lastWrite, evicted)
           /\ lastOK' = (sig :> frame[t].now) @@ Without(lastOK, evicted)
           /\ flushed' = flushed \ {sig}
           /\ written' = written \cup {sig}
  /\ pc' = [pc EXCEPT ![t] = "cache_return"]
  /\ UNCHANGED <<config, lifetime, cache_mutex_, now, crashed>>

\* Line 97: the return; the lock's scope ends.
CacheResponse_Return(t) ==
  /\ ~crashed
  /\ pc[t] = "cache_return"
  /\ Release(t)
  /\ pc' = [pc EXCEPT ![t] = "idle"]
  /\ frame' = [frame EXCEPT ![t] = IdleFrame]
  /\ UNCHANGED <<config, lifetime, cache_, now, live, crashed, history>>

----------------------------------------------------------------------------
(* CheckCacher::GetNextFlushInterval *)

\* GetNextFlushInterval returning the other interval of the options.
GetNextFlushInterval_WrongOption(t) ==
  /\ ~crashed
  /\ pc[t] = "idle"
  /\ lifetime = "constructed"
  /\ frame' = [frame EXCEPT ![t] =
       [NewFrame("GetNextFlushInterval", "none", "none") EXCEPT
          !.interval = IF cache_ = <<>> THEN -1 ELSE options_.flush_interval_ms]]
  /\ pc' = [pc EXCEPT ![t] = "interval_return"]
  /\ UNCHANGED <<config, lifetime, cache_, cache_mutex_, now, live, crashed, history>>

\* Lines 102-105; the method takes no lock.
GetNextFlushInterval(t) ==
  /\ ~crashed
  /\ pc[t] = "idle"
  /\ lifetime = "constructed"
  /\ frame' = [frame EXCEPT ![t] =
       [NewFrame("GetNextFlushInterval", "none", "none") EXCEPT
          !.interval = IF cache_ = <<>> THEN -1 ELSE options_.expiration_ms]]
  /\ pc' = [pc EXCEPT ![t] = "interval_return"]
  /\ UNCHANGED <<config, lifetime, cache_, cache_mutex_, now, live, crashed, history>>

GetNextFlushInterval_Return(t) ==
  /\ ~crashed
  /\ pc[t] = "interval_return"
  /\ pc' = [pc EXCEPT ![t] = "idle"]
  /\ frame' = [frame EXCEPT ![t] = IdleFrame]
  /\ UNCHANGED <<config, lifetime, cache_, cache_mutex_, now, live, crashed, history>>

----------------------------------------------------------------------------
(* CheckCacher::Flush *)

\* Lines 109-110: a caller enters Flush() and takes the mutex.
Flush_Call(t) ==
  /\ ~crashed
  /\ pc[t] = "idle"
  /\ lifetime = "constructed"
  /\ Acquire(t)
  /\ frame' = [frame EXCEPT ![t] = NewFrame("Flush", "none", "none")]
  /\ pc' = [pc EXCEPT ![t] = "flush_remove"]
  /\ UNCHANGED <<config, lifetime, cache_, now, live, crashed, history>>

\* Flush_Remove calling RemoveAll where line 113 calls RemoveExpiredEntries.
Flush_Remove_All(t) ==
  /\ ~crashed
  /\ pc[t] = "flush_remove"
  /\ IF cache_ = <<>>
       THEN /\ UNCHANGED <<cache_, live, history>>
            /\ frame' = [frame EXCEPT ![t].status = "OK"]
       ELSE LET all == DOMAIN cache_[1].table
            IN  /\ cache_' = <<[cache_[1] EXCEPT !.table = Without(@, all)]>>
                /\ live' = OnCacheEntryDelete(live, all)
                /\ frame' = [frame EXCEPT ![t].status = "OK", ![t].deleted = all]
                /\ lastWrite' = Without(lastWrite, all)
                /\ lastOK' = Without(lastOK, all)
                /\ UNCHANGED <<flushed, written>>
  /\ pc' = [pc EXCEPT ![t] = "flush_return"]
  /\ UNCHANGED <<config, lifetime, cache_mutex_, now, crashed>>

\* Lines 112-114: RemoveExpiredEntries; every removed entry goes through
\* OnCacheEntryDelete (line 119).
Flush_Remove(t) ==
  /\ ~crashed
  /\ pc[t] = "flush_remove"
  /\ IF cache_ = <<>>
       THEN /\ UNCHANGED <<cache_, live, history>>
            /\ frame' = [frame EXCEPT ![t].status = "OK"]
       ELSE LET expired == Expired(cache_[1])
            IN  /\ cache_' = <<[cache_[1] EXCEPT !.table = Without(@, expired)]>>
                /\ live' = OnCacheEntryDelete(live, expired)
                /\ frame' = [frame EXCEPT ![t].status = "OK", ![t].deleted = expired]
                /\ lastWrite' = Without(lastWrite, expired)
                /\ lastOK' = Without(lastOK, expired)
                /\ UNCHANGED <<flushed, written>>
  /\ pc' = [pc EXCEPT ![t] = "flush_return"]
  /\ UNCHANGED <<config, lifetime, cache_mutex_, now, crashed>>

\* Line 116.
Flush_Return(t) ==
  /\ ~crashed
  /\ pc[t] = "flush_return"
  /\ Release(t)
  /\ pc' = [pc EXCEPT ![t] = "idle"]
  /\ frame' = [frame EXCEPT ![t] = IdleFrame]
  /\ UNCHANGED <<config, lifetime, cache_, now, live, crashed, history>>

----------------------------------------------------------------------------
(* CheckCacher::FlushAll *)

\* Lines 123-125: a caller enters FlushAll(), logs and takes the mutex.
FlushAll_Call(t) ==
  /\ ~crashed
  /\ pc[t] = "idle"
  /\ lifetime = "constructed"
  /\ Acquire(t)
  /\ frame' = [frame EXCEPT ![t] = NewFrame("FlushAll", "none", "none")]
  /\ pc' = [pc EXCEPT ![t] = "flushall_remove"]
  /\ UNCHANGED <<config, lifetime, cache_, now, live, crashed, history>>

\* FlushAll_Remove calling RemoveExpiredEntries where line 128 calls
\* RemoveAll.
FlushAll_Remove_Expired(t) ==
  /\ ~crashed
  /\ pc[t] = "flushall_remove"
  /\ IF cache_ = <<>>
       THEN /\ UNCHANGED <<cache_, live, history>>
            /\ frame' = [frame EXCEPT ![t].status = "OK"]
       ELSE LET all     == DOMAIN cache_[1].table
                expired == Expired(cache_[1])
            IN  /\ cache_' = <<[cache_[1] EXCEPT !.table = Without(@, expired)]>>
                /\ live' = OnCacheEntryDelete(live, expired)
                /\ frame' = [frame EXCEPT ![t].status = "OK", ![t].deleted = expired]
                /\ lastWrite' = EmptyTable
                /\ lastOK' = EmptyTable
                /\ flushed' = flushed \cup all
                /\ UNCHANGED written
  /\ pc' = [pc EXCEPT ![t] = "flushall_return"]
  /\ UNCHANGED <<config, lifetime, cache_mutex_, now, crashed>>

\* FlushAll_Remove building a store when there is none, where line 127
\* skips the removal.
FlushAll_Remove_BuildsStore(t) ==
  /\ ~crashed
  /\ pc[t] = "flushall_remove"
  /\ IF cache_ = <<>>
       THEN /\ cache_' = <<CheckCache(0, options_.expiration_ms)>>
            /\ UNCHANGED <<live, history>>
            /\ frame' = [frame EXCEPT ![t].status = "OK"]
       ELSE LET all == DOMAIN cache_[1].table
            IN  /\ cache_' = <<[cache_[1] EXCEPT !.table = Without(@, all)]>>
                /\ live' = OnCacheEntryDelete(live, all)
                /\ frame' = [frame EXCEPT ![t].status = "OK", ![t].deleted = all]
                /\ lastWrite' = EmptyTable
                /\ lastOK' = EmptyTable
                /\ flushed' = flushed \cup all
                /\ UNCHANGED written
  /\ pc' = [pc EXCEPT ![t] = "flushall_return"]
  /\ UNCHANGED <<config, lifetime, cache_mutex_, now, crashed>>

\* Lines 127-129: RemoveAll; every entry goes through OnCacheEntryDelete.
FlushAll_Remove(t) ==
  /\ ~crashed
  /\ pc[t] = "flushall_remove"
  /\ IF cache_ = <<>>
       THEN /\ UNCHANGED <<cache_, live, history>>
            /\ frame' = [frame EXCEPT ![t].status = "OK"]
       ELSE LET all == DOMAIN cache_[1].table
            IN  /\ cache_' = <<[cache_[1] EXCEPT !.table = Without(@, all)]>>
                /\ live' = OnCacheEntryDelete(live, all)
                /\ frame' = [frame EXCEPT ![t].status = "OK", ![t].deleted = all]
                /\ lastWrite' = EmptyTable
                /\ lastOK' = EmptyTable
                /\ flushed' = flushed \cup all
                /\ UNCHANGED written
  /\ pc' = [pc EXCEPT ![t] = "flushall_return"]
  /\ UNCHANGED <<config, lifetime, cache_mutex_, now, crashed>>

\* Line 131: the return, to the caller or into the destructor (line 45).
FlushAll_Return(t) ==
  /\ ~crashed
  /\ pc[t] = "flushall_return"
  /\ Release(t)
  /\ IF lifetime = "destructing"
       THEN /\ pc' = [pc EXCEPT ![t] = "destructor_members"]
            /\ UNCHANGED frame
       ELSE /\ pc' = [pc EXCEPT ![t] = "idle"]
            /\ frame' = [frame EXCEPT ![t] = IdleFrame]
  /\ UNCHANGED <<config, lifetime, cache_, now, live, crashed, history>>

----------------------------------------------------------------------------
(* CheckCacher::~CheckCacher *)

\* Lines 43-45: the owner destroys the coordinator, which no other thread is
\* using or uses again; the destructor calls FlushAll, which takes the mutex.
Destructor_Call(t) ==
  /\ ~crashed
  /\ lifetime = "constructed"
  /\ \A u \in Threads : pc[u] = "idle"
  /\ Acquire(t)
  /\ lifetime' = "destructing"
  /\ frame' = [frame EXCEPT ![t] = NewFrame("~CheckCacher", "none", "none")]
  /\ pc' = [pc EXCEPT ![t] = "flushall_remove"]
  /\ UNCHANGED <<config, cache_, now, live, crashed, history>>

\* Line 46: the members are destroyed; the store, if there is one, hands the
\* entries it still holds to the deletion hook.
Destructor_Members(t) ==
  /\ ~crashed
  /\ pc[t] = "destructor_members"
  /\ IF cache_ = <<>>
       THEN UNCHANGED <<cache_, live>>
       ELSE LET all == DOMAIN cache_[1].table
            IN  /\ cache_' = <<[cache_[1] EXCEPT !.table = Without(@, all)]>>
                /\ live' = OnCacheEntryDelete(live, all)
  /\ lifetime' = "destroyed"
  /\ pc' = [pc EXCEPT ![t] = "destroyed"]
  /\ UNCHANGED <<config, cache_mutex_, now, frame, crashed, history>>

----------------------------------------------------------------------------

Next ==
  \/ Tick
  \/ \E t \in Threads :
       \/ \E a \in AttributeSets : Check_Call(t, a)
       \/ Check_Lookup(t)
       \/ Check_LookupNull(t)
       \/ Check_ShouldFlush(t)
       \/ Check_SetTime(t)
       \/ Check_Copy(t)
       \/ Check_Return(t)
       \/ \E a \in AttributeSets, r \in Responses : CacheResponse_Call(t, a, r)
       \/ CacheResponse_Lookup(t)
       \/ CacheResponse_SetTime(t)
       \/ CacheResponse_SetResponse(t)
       \/ CacheResponse_Insert(t)
       \/ CacheResponse_Return(t)
       \/ GetNextFlushInterval(t)
       \/ GetNextFlushInterval_Return(t)
       \/ Flush_Call(t)
       \/ Flush_Remove(t)
       \/ Flush_Return(t)
       \/ FlushAll_Call(t)
       \/ FlushAll_Remove(t)
       \/ FlushAll_Return(t)
       \/ Destructor_Call(t)
       \/ Destructor_Members(t)

Spec == Init /\ [][Next]_vars

\* The steps of a call thread t has made: everything but the calls.
Continue(t) ==
  \/ Check_Lookup(t)
  \/ Check_LookupNull(t)
  \/ Check_ShouldFlush(t)
  \/ Check_SetTime(t)
  \/ Check_Copy(t)
  \/ Check_Return(t)
  \/ CacheResponse_Lookup(t)
  \/ CacheResponse_SetTime(t)
  \/ CacheResponse_SetResponse(t)
  \/ CacheResponse_Insert(t)
  \/ CacheResponse_Return(t)
  \/ GetNextFlushInterval_Return(t)
  \/ Flush_Remove(t)
  \/ Flush_Return(t)
  \/ FlushAll_Remove(t)
  \/ FlushAll_Return(t)
  \/ Destructor_Members(t)

\* Fair scheduling: a thread that is inside a call and can take its next
\* step eventually takes it.
FairSpec == Spec /\ \A t \in Threads : WF_vars(Continue(t))

----------------------------------------------------------------------------
(* Vocabulary of the properties *)

\* The entries the store holds (none when there is no store).
Table == IF cache_ = <<>> THEN EmptyTable ELSE cache_[1].table

\* The signature thread t's call is about.
Sig(t) == frame[t].request_signature

\* Thread t is between taking the mutex and returning.
InCritical(t) ==
  pc[t] \in {"check_lookup", "check_should_flush", "check_set_time", "check_copy",
             "check_return", "cache_lookup", "cache_set_time",
             "cache_set_response", "cache_insert", "cache_return",
             "flush_remove", "flush_return", "flushall_remove", "flushall_return"}

\* Thread t is about to return from Check, its status and response decided.
CheckReturns(t) == pc[t] = "check_return"

----------------------------------------------------------------------------
(* C1 *)

\* C1, as claimed: after CacheResponse(attrs, R) returns on an enabled cache,
\* a Check of the same signature issued immediately afterwards (in the same
\* cycle), or at any time less than flush_interval after that write, with no
\* operation in between having removed the entry, returns OK with response R.
C1_CheckAfterWriteSucceeds ==
  \A t \in Threads :
    (/\ CheckReturns(t)
     /\ cache_ # <<>>
     /\ Sig(t) \in DOMAIN lastWrite
     /\ \/ frame[t].now = lastWrite[Sig(t)].time
        \/ frame[t].now - lastWrite[Sig(t)].time < flush_interval_in_cycle_)
    => /\ frame[t].status = "OK"
       /\ frame[t].response = lastWrite[Sig(t)].response

\* C1, amended: on an enabled cache of capacity at least 1, a Check whose age
\* test runs fewer than flush_interval_in_cycle_ cycles after the last
\* CacheResponse write of its signature, with no operation in between having
\* removed the entry, returns OK with the response written.
C1_FreshAfterWrite ==
  \A t \in Threads :
    (/\ CheckReturns(t)
     /\ options_.num_entries >= 1
     /\ Sig(t) \in DOMAIN lastWrite
     /\ frame[t].now - lastWrite[Sig(t)].time < flush_interval_in_cycle_)
    => /\ frame[t].status = "OK"
       /\ frame[t].response = lastWrite[Sig(t)].response

\* A Check returns the written response one cycle after the write.
C1_Witness ==
  \E t \in Threads :
    /\ CheckReturns(t)
    /\ options_.num_entries >= 1
    /\ Sig(t) \in DOMAIN lastWrite
    /\ frame[t].now = lastWrite[Sig(t)].time + 1
    /\ frame[t].status = "OK"
    /\ frame[t].response = lastWrite[Sig(t)].response

----------------------------------------------------------------------------
(* C2 *)

\* C2: a Check of a signature that CacheResponse has never written completes
\* and returns NOT_FOUND, whatever has been done with other signatures.
C2_NeverWrittenNotFound ==
  \A t \in Threads :
    (frame[t].op = "Check" /\ Sig(t) \notin written)
    => /\ frame[t].status \in {"none", "NOT_FOUND"}
       /\ CheckReturns(t) => frame[t].status = "NOT_FOUND"

----------------------------------------------------------------------------
(* C3 *)

\* C3, as claimed: a Check called after a CacheResponse of its signature has
\* returned, and testing within flush_interval of the last successful Check
\* or CacheResponse of that signature, returns OK.
C3_WithinWindowSucceeds ==
  \A t \in Threads :
    (/\ CheckReturns(t)
     /\ cache_ # <<>>
     /\ Sig(t) \in DOMAIN lastOK
     /\ Sig(t) \in DOMAIN lastWrite
     /\ frame[t].now - lastOK[Sig(t)] < flush_interval_in_cycle_)
    => frame[t].status = "OK"

\* C3, amended: every entry's last_check_time is the time of the last
\* successful Check or CacheResponse of its signature; a Check that finds the
\* entry in the store and tests it fewer than flush_interval_in_cycle_ cycles
\* after that time returns OK with the entry's response and sets
\* last_check_time to the clock it then reads.
C3_SlidingWindow ==
  /\ \A s \in DOMAIN Table :
       s \in DOMAIN lastOK /\ Table[s].value.last_check_time = lastOK[s]
  /\ \A t \in Threads :
       /\ pc[t] = "check_set_time"
            => /\ frame[t].elem.last_check_time = lastOK[Sig(t)]
               /\ frame[t].now - lastOK[Sig(t)] < flush_interval_in_cycle_
       /\ (/\ CheckReturns(t)
           /\ frame[t].found
           /\ frame[t].now - frame[t].elem.last_check_time < flush_interval_in_cycle_)
          => /\ frame[t].status = "OK"
             /\ frame[t].response = frame[t].elem.check_response
             /\ Table[Sig(t)].value.check_response = frame[t].elem.check_response
             /\ Table[Sig(t)].value.last_check_time >= frame[t].now
             /\ Table[Sig(t)].value.last_check_time <= now

\* A Check succeeds two cycles (a whole flush interval) after the write,
\* because a Check in between moved the window.
C3_Witness ==
  \E t \in Threads :
    /\ CheckReturns(t)
    /\ frame[t].status = "OK"
    /\ Sig(t) \in DOMAIN lastWrite
    /\ frame[t].now - lastWrite[Sig(t)].time >= flush_interval_in_cycle_
    /\ frame[t].elem.last_check_time > lastWrite[Sig(t)].time

----------------------------------------------------------------------------
(* C4 *)

\* C4: a Check that finds an entry whose age is flush_interval_in_cycle_ or
\* more returns NOT_FOUND and leaves the entry's last_check_time and response
\* as it found them; a Check returns OK only for an entry it tested fresh.
C4_StaleCheckLeavesEntry ==
  \A t \in Threads :
    (CheckReturns(t) /\ frame[t].found)
    => /\ frame[t].now - frame[t].elem.last_check_time >= flush_interval_in_cycle_
            => /\ frame[t].status = "NOT_FOUND"
               /\ Table[Sig(t)].value = frame[t].elem
       /\ frame[t].status = "OK"
            => frame[t].now - frame[t].elem.last_check_time < flush_interval_in_cycle_

\* A Check returns NOT_FOUND for an entry that is exactly flush interval old,
\* with a flush interval of at least one cycle.
C4_Witness ==
  \E t \in Threads :
    /\ CheckReturns(t)
    /\ frame[t].found
    /\ flush_interval_in_cycle_ > 0
    /\ frame[t].now - frame[t].elem.last_check_time = flush_interval_in_cycle_
    /\ frame[t].status = "NOT_FOUND"

----------------------------------------------------------------------------
(* C5 *)

\* A step changes the stored CacheElem of signature s only as a write of
\* CacheResponse (lines 89-90) or as the refresh of a Check that tested the
\* entry fresh (line 72); it creates an entry for s only as the insert of
\* CacheResponse (lines 92-93).
OnlyCacheResponseWrites(s) ==
  /\ (s \notin DOMAIN Table /\ s \in DOMAIN Table')
       => \E t \in Threads :
            /\ pc[t] = "cache_insert" /\ pc'[t] = "cache_return"
            /\ Sig(t) = s
  /\ (s \in DOMAIN Table /\ s \in DOMAIN Table' /\ Table'[s].value # Table[s].value)
       => \E t \in Threads :
            /\ Sig(t) = s
            /\ \/ pc[t] = "cache_set_time" /\ pc'[t] = "cache_set_response"
               \/ pc[t] = "cache_set_response" /\ pc'[t] = "cache_return"
               \/ /\ pc[t] = "check_set_time" /\ pc'[t] = "check_copy"
                  /\ frame[t].now - frame[t].elem.last_check_time
                       < flush_interval_in_cycle_
                  /\ Table'[s].value.check_response = Table[s].value.check_response

\* When CacheResponse is about to return having found the entry, the entry
\* holds the response and the clock value of this call.
OverwritesInPlace(t) ==
  (pc[t] = "cache_return" /\ frame[t].found)
  => /\ Sig(t) \in DOMAIN Table
     /\ Table[Sig(t)].value = CacheElem(frame[t].response, frame[t].now)

\* A successful Check returns the response of the last CacheResponse write of
\* its signature, never an older one.
ReturnsLastWritten(t) ==
  (CheckReturns(t) /\ frame[t].status = "OK")
  => /\ Sig(t) \in DOMAIN lastWrite
     /\ frame[t].response = lastWrite[Sig(t)].response

\* C5: CacheResponse on a signature that has an entry overwrites response and
\* last_check_time in place, so a later successful Check returns the new
\* response and never the old one; only CacheResponse creates an entry, and
\* apart from the refresh of a fresh hit only CacheResponse changes one (so
\* nothing else makes an entry that tests stale fresh again).
C5_OverwriteAndOnlyWriter ==
  /\ [](\A t \in Threads : OverwritesInPlace(t) /\ ReturnsLastWritten(t))
  /\ [][\A s \in Signatures : OnlyCacheResponseWrites(s)]_vars

\* A CacheResponse has overwritten, a flush interval or more after the
\* first write, an entry it found, and is about to return.
C5_Witness ==
  \E t \in Threads :
    /\ pc[t] = "cache_return"
    /\ frame[t].found
    /\ flush_interval_in_cycle_ > 0
    /\ frame[t].now >= flush_interval_in_cycle_
    /\ Table[Sig(t)].value = CacheElem(frame[t].response, frame[t].now)

----------------------------------------------------------------------------
(* C6 *)

\* What a Flush step on a store does: it removes the entries idle for
\* max_idle or longer, each through the deletion hook, and no other; the
\* entries it keeps are as they were.
FlushRemovesExpired(t) ==
  (pc[t] = "flush_remove" /\ pc'[t] = "flush_return" /\ cache_ # <<>>)
  => LET idle(s) == now - cache_[1].table[s].last_use
         old     == {s \in DOMAIN Table : idle(s) >= cache_[1].max_idle}
     IN  /\ DOMAIN Table' = (DOMAIN Table) \ old
         /\ \A s \in DOMAIN Table' : Table'[s] = Table[s]
         /\ frame'[t].deleted = old
         /\ live' = OnCacheEntryDelete(live, old)
         /\ frame'[t].status = "OK"

\* A Check at this moment would return the entry of signature s.
Retrievable(s) ==
  /\ s \in DOMAIN Table
  /\ ~ShouldFlush(Table[s].value)

----------------------------------------------------------------------------
(* C7 *)

\* C7: when FlushAll is about to return the store holds no entry, whatever
\* the entries' ages were, and every entry went through the deletion hook;
\* a Check of a signature FlushAll removed returns NOT_FOUND until
\* CacheResponse writes the signature again.
C7_FlushAllRemovesEverything ==
  \A t \in Threads :
    /\ pc[t] = "flushall_return" => (DOMAIN Table = {} /\ live = 0)
    /\ (CheckReturns(t) /\ Sig(t) \in flushed)
         => /\ frame[t].status = "NOT_FOUND"
            /\ Sig(t) \notin DOMAIN Table

\* A Check misses a signature that was written, and removed by FlushAll in
\* the same cycle.
C7_Witness ==
  \E t \in Threads :
    /\ CheckReturns(t)
    /\ Sig(t) \in flushed
    /\ now = 0
    /\ flush_interval_in_cycle_ > 0
    /\ frame[t].status = "NOT_FOUND"

----------------------------------------------------------------------------
(* C8 *)

\* C8: with caching disabled (num_entries < 0) no entry is ever created,
\* CacheResponse returns OK, and every Check completes and returns NOT_FOUND.
C8_DisabledAlwaysMisses ==
  options_.num_entries < 0
  => /\ DOMAIN Table = {}
     /\ live = 0
     /\ ~crashed
     /\ \A t \in Threads :
          /\ pc[t] = "cache_return" => frame[t].status = "OK"
          /\ frame[t].op = "Check" => frame[t].status \in {"none", "NOT_FOUND"}
          /\ CheckReturns(t) => frame[t].status = "NOT_FOUND"

----------------------------------------------------------------------------
(* C9 *)

\* C9: a thread between taking the mutex and returning holds it, and no
\* other thread is there; the entry a Check has tested is not changed under
\* it, and the response it returns is the one the entry held when tested.
C9_NoTornRead ==
  \A t \in Threads :
    /\ InCritical(t)
         => /\ cache_mutex_ = t
            /\ \A u \in Threads \ {t} : ~InCritical(u)
    /\ pc[t] = "check_set_time"
         => /\ Sig(t) \in DOMAIN Table
            /\ Table[Sig(t)].value = frame[t].elem
    /\ pc[t] = "check_copy"
         => /\ Sig(t) \in DOMAIN Table
            /\ Table[Sig(t)].value.check_response = frame[t].elem.check_response
    /\ (CheckReturns(t) /\ frame[t].status = "OK")
         => frame[t].response = frame[t].elem.check_response

\* A Check is about to copy the response of an entry while the other thread
\* is outside, kept out by the mutex.
C9_Witness ==
  \E t \in Threads :
    /\ pc[t] = "check_copy"
    /\ cache_mutex_ = t
    /\ \A u \in Threads \ {t} : pc[u] = "idle"
    /\ frame[t].elem.check_response = "R2"

----------------------------------------------------------------------------
(* C10 *)

\* C10: GetNextFlushInterval returns -1 when caching is disabled and the
\* configured expiration_ms otherwise; the options and whether there is a
\* store never change, so neither does the value.
C10_NextFlushInterval ==
  /\ [](\A t \in Threads :
          pc[t] = "interval_return"
            => frame[t].interval = IF options_.num_entries < 0
                                     THEN -1 ELSE options_.expiration_ms)
  /\ [][/\ options_' = options_
        /\ (cache_' = <<>>) <=> (cache_ = <<>>)]_vars

\* GetNextFlushInterval returns the expiration of a store that holds an entry.
C10_Witness ==
  \E t \in Threads :
    /\ pc[t] = "interval_return"
    /\ frame[t].interval = options_.expiration_ms
    /\ DOMAIN Table # {}
    /\ now > 0

----------------------------------------------------------------------------
(* C11 *)

\* Thread t holds a pointer to the CacheElem of its signature (the elem of
\* Check, lines 64-73; lookup.value() of CacheResponse, lines 89-90).
HoldsElem(t) ==
  pc[t] \in {"check_should_flush", "check_set_time", "check_copy",
             "cache_set_time", "cache_set_response"}

\* A step that takes entries out of the store is taken by the thread that
\* holds the mutex, which keeps it, and hands exactly those entries to the
\* deletion hook.
RemovalUnderLock ==
  LET removed == (DOMAIN Table) \ (DOMAIN Table')
  IN  removed # {}
        => \E t \in Threads :
             /\ cache_mutex_ = t /\ cache_mutex_' = t
             /\ pc[t] \in {"cache_insert", "flush_remove", "flushall_remove"}
             /\ frame'[t].deleted = removed
             /\ live' = live + Cardinality((DOMAIN Table') \ (DOMAIN Table))
                              - Cardinality(removed)

\* C11: every CacheElem created is either held by the store or has been
\* deleted by the hook, once (the allocated objects are exactly the entries
\* of the store); entries leave the store only in a step of the thread
\* holding the mutex, which hands them to the hook; Check and CacheResponse
\* hold a pointer only to an entry that is still in the store; and once the
\* destructor has run nothing created is left undeleted.
C11_DeletedExactlyOnce ==
  /\ [](/\ live = Cardinality(DOMAIN Table)
        /\ \A t \in Threads : HoldsElem(t) => Sig(t) \in DOMAIN Table
        /\ lifetime = "destroyed" => (live = 0 /\ DOMAIN Table = {}))
  /\ [][RemovalUnderLock]_vars

\* The destructor has run, and its FlushAll handed an entry to the hook.
C11_Witness ==
  \E t \in Threads :
    /\ lifetime = "destroyed"
    /\ frame[t].op = "~CheckCacher"
    /\ frame[t].deleted # {}
    /\ live = 0

----------------------------------------------------------------------------
(* C12 *)

\* C12: a Check that returns, returns OK or NOT_FOUND; CacheResponse, Flush
\* and FlushAll, when they return, return OK, with or without a store.
C12_OnlyNotFoundFromCheck ==
  \A t \in Threads :
    /\ CheckReturns(t) => frame[t].status \in {"OK", "NOT_FOUND"}
    /\ pc[t] \in {"cache_return", "flush_return", "flushall_return"}
         => frame[t].status = "OK"
    /\ frame[t].status = "NOT_FOUND" => frame[t].op = "Check"

\* CacheResponse is about to return OK from a coordinator without a store.
C12_Witness ==
  \E t \in Threads :
    /\ options_.num_entries < 0
    /\ pc[t] = "cache_return"
    /\ frame[t].status = "OK"

----------------------------------------------------------------------------
(* C13 *)

\* C13: the store holds one CacheElem for each signature it has an entry
\* for and no other (the objects allocated are as many as the signatures
\* held); CacheResponse inserts a new CacheElem only for a signature that has
\* no entry at that moment, and otherwise writes the one entry there is.
C13_OneEntryPerSignature ==
  /\ Cardinality(DOMAIN Table) = live
  /\ DOMAIN Table \subseteq Signatures
  /\ \A t \in Threads :
       /\ pc[t] = "cache_insert"
            => (~frame[t].found /\ Sig(t) \notin DOMAIN Table)
       /\ pc[t] \in {"cache_set_time", "cache_set_response"}
            => (frame[t].found /\ Sig(t) \in DOMAIN Table)

\* A CacheResponse for a signature that already had an entry is about to
\* return from a store with room for two entries, which holds one.
C13_Witness ==
  \E t \in Threads :
    /\ pc[t] = "cache_return"
    /\ frame[t].found
    /\ options_.num_entries = 2
    /\ DOMAIN Table = {Sig(t)}
    /\ live = 1

----------------------------------------------------------------------------
(* C14 *)

\* last_check_time of the entry of signature s.
LastCheckTime(s) == Table[s].value.last_check_time

\* A step leaves last_check_time of an entry that stays in the store as it
\* was, or moves it forward: to the clock value Check reads at line 72 after
\* testing the entry fresh, or to the one CacheResponse read at line 86.
MovesForward(s) ==
  (s \in DOMAIN Table /\ s \in DOMAIN Table')
  => /\ LastCheckTime(s)' >= LastCheckTime(s)
     /\ LastCheckTime(s)' # LastCheckTime(s)
          => \E t \in Threads :
               /\ Sig(t) = s
               /\ \/ /\ pc[t] = "check_set_time" /\ pc'[t] = "check_copy"
                     /\ frame[t].now - frame[t].elem.last_check_time
                          < flush_interval_in_cycle_
                     /\ LastCheckTime(s)' = now
                  \/ /\ pc[t] = "cache_set_time" /\ pc'[t] = "cache_set_response"
                     /\ LastCheckTime(s)' = frame[t].now

\* C14: while an entry is in the store its last_check_time never decreases,
\* is never ahead of the clock, and is the time of the most recent Check
\* that found it fresh or CacheResponse that wrote it.
C14_LastCheckTimeMonotone ==
  /\ [](\A s \in DOMAIN Table :
          /\ LastCheckTime(s) <= now
          /\ s \in DOMAIN lastOK
          /\ LastCheckTime(s) = lastOK[s])
  /\ [][\A s \in Signatures : MovesForward(s)]_vars

\* A Check has moved last_check_time of an entry forward from the time
\* CacheResponse wrote it, which was itself not the start of the clock.
C14_Witness ==
  \E t \in Threads :
    /\ pc[t] = "check_copy"
    /\ frame[t].elem.last_check_time > 0
    /\ LastCheckTime(Sig(t)) > frame[t].elem.last_check_time

----------------------------------------------------------------------------
(* C15 *)

\* The cache entries: the CacheElem held for each signature.
Entries == [s \in DOMAIN Table |-> Table[s].value]

\* The step is one of thread t's call of Check.
CheckStep(t) ==
  /\ pc'[t] # pc[t] \/ crashed' # crashed
  /\ frame[t].op = "Check" \/ frame'[t].op = "Check"

\* A step of Check leaves the entries as they are, but for the one that sets
\* last_check_time of the entry Check found and tested fresh.
CheckFrame(t) ==
  CheckStep(t)
  => /\ DOMAIN Entries' = DOMAIN Entries
     /\ live' = live
     /\ \A s \in DOMAIN Entries :
          Entries'[s] # Entries[s]
          => /\ s = Sig(t)
             /\ pc[t] = "check_set_time"
             /\ frame[t].now - frame[t].elem.last_check_time
                  < flush_interval_in_cycle_
             /\ Entries'[s].check_response = Entries[s].check_response

\* An entry leaves the store only in a step of Flush, of FlushAll or of the
\* insert of CacheResponse.
RemovedOnlyByStore ==
  (DOMAIN Entries) \ (DOMAIN Entries') # {}
  => \E t \in Threads :
       pc[t] \in {"flush_remove", "flushall_remove", "cache_insert"}

----------------------------------------------------------------------------
(* C16 *)

\* Thread t is inside no call: it has not called, has returned, or has
\* finished the destructor.
Outside(t) == pc[t] \in {"idle", "destroyed"}

\* C16: the mutex is held only by a thread inside a call, and under fair
\* scheduling every call that has been made returns.
C16_EveryCallCompletes ==
  /\ [](\A t \in Threads : cache_mutex_ = t => ~Outside(t))
  /\ \A t \in Threads : ~Outside(t) ~> Outside(t)

----------------------------------------------------------------------------
(* C17 *)

\* C17: a store never holds more entries than num_entries, nor are more
\* CacheElem objects allocated than that.
C17_WithinCapacity ==
  cache_ # <<>>
  => /\ Cardinality(DOMAIN Table) <= options_.num_entries
     /\ live <= options_.num_entries

\* A CacheResponse is about to return from a store of capacity 1 that was
\* full: its insert evicted the entry of the other signature.
C17_Witness ==
  \E t \in Threads :
    /\ pc[t] = "cache_return"
    /\ options_.num_entries = 1
    /\ frame[t].deleted # {}
    /\ DOMAIN Table = {Sig(t)}

----------------------------------------------------------------------------
(* C18 *)

\* The store pointer c with the store, if any, emptied.
Emptied(c) ==
  IF c = <<>> THEN <<>> ELSE <<[c[1] EXCEPT !.table = EmptyTable]>>

\* What the steps of a FlushAll of thread t do to the cache: the call and
\* the return nothing, and the removal leaves the store empty, handing the
\* hook the entries there were; on an empty or absent store that is no
\* change and no entry for the hook.
FlushAllEffect(t) ==
  /\ (pc[t] = "flushall_remove" /\ pc'[t] = "flushall_return")
       => /\ cache_' = Emptied(cache_)
          /\ frame'[t].deleted = DOMAIN Table
          /\ live' = live - Cardinality(DOMAIN Table)
          /\ frame'[t].status = "OK"
          /\ DOMAIN Table = {}
               => (cache_' = cache_ /\ live' = live /\ frame'[t].deleted = {})
  /\ (\/ pc[t] = "idle" /\ pc'[t] = "flushall_remove"
      \/ pc[t] = "flushall_return" /\ pc'[t] # pc[t])
     => (cache_' = cache_ /\ live' = live)

\* C18: FlushAll leaves the store empty whatever it held, so a FlushAll on
\* an empty store or without a store changes nothing and hands the hook
\* nothing, and a second FlushAll leaves what the first left.
C18_FlushAllIdempotent ==
  [][\A t \in Threads : FlushAllEffect(t)]_vars

\* A FlushAll is about to return having found the store empty, after an
\* earlier FlushAll removed an entry.
C18_Witness ==
  \E t \in Threads :
    /\ pc[t] = "flushall_return"
    /\ frame[t].op = "FlushAll"
    /\ frame[t].deleted = {}
    /\ flushed # {}
    /\ live = 0

----------------------------------------------------------------------------
(* C19 *)

\* C19: a Check returns OK exactly when it found an entry whose age, by its
\* own test, was strictly less than flush_interval_in_cycle_ (an age equal
\* to it is a miss); with flush_interval_ms = 0 every Check ends by
\* returning NOT_FOUND, also right after a CacheResponse of its signature.
C19_StrictFreshness ==
  \A t \in Threads :
    /\ CheckReturns(t)
         => (frame[t].status = "OK"
               <=> /\ frame[t].found
                   /\ frame[t].now - frame[t].elem.last_check_time
                        < flush_interval_in_cycle_)
    /\ (frame[t].op = "Check" /\ options_.flush_interval_ms = 0)
         => /\ frame[t].status \in {"none", "NOT_FOUND"}
            /\ CheckReturns(t) => frame[t].status = "NOT_FOUND"

----------------------------------------------------------------------------
(* C20 *)

\* C20: there is no store exactly when num_entries < 0.  With num_entries = 0
\* there is a store, of capacity 0: GetNextFlushInterval returns
\* expiration_ms; Check looks the signature up in the store, finds nothing
\* and returns NOT_FOUND; CacheResponse looks it up and inserts a new
\* CacheElem, which the store hands straight to the deletion hook.
C20_DisabledIffNegative ==
  /\ (cache_ = <<>>) <=> (options_.num_entries < 0)
  /\ options_.num_entries = 0
       => /\ cache_[1].max_units = 0
          /\ ~crashed
          /\ DOMAIN Table = {} /\ live = 0
          /\ \A t \in Threads :
               /\ pc[t] = "interval_return"
                    => frame[t].interval = options_.expiration_ms
               /\ CheckReturns(t)
                    => (~frame[t].found /\ frame[t].status = "NOT_FOUND")
               /\ pc[t] = "cache_return"
                    => /\ Sig(t) = GenerateSignature(frame[t].attributes)
                       /\ frame[t].deleted = {Sig(t)}
                       /\ frame[t].status = "OK"

\* CacheResponse is about to return from a coordinator with num_entries = 0:
\* it inserted an entry, which the store evicted at once.
C20_Witness ==
  \E t \in Threads :
    /\ options_.num_entries = 0
    /\ pc[t] = "cache_return"
    /\ frame[t].deleted = {Sig(t)}
    /\ written = {Sig(t)}

====
